---------------------------- MODULE Spec2Model ----------------------------
(***************************************************************************)
(* Model of package forecast (src/forecast/print.go): the unit table, the  *)
(* bearing resolver, the icon resolver, the metric renderer printCommon    *)
(* and the two printers PrintCurrent and PrintDaily.                       *)
(*                                                                         *)
(* Numbers.  A float64 metric is an integer count of hundredths (0.25 is   *)
(* 25, 9.9 is 990, 11.25 degrees is 1125); every input of the model is a   *)
(* finite number with at most two decimals, for which the float64          *)
(* arithmetic of the source is exact at every comparison it makes.  The    *)
(* two temperatures of PrintCurrent are records that can also be NaN,      *)
(* because the source compares their renderings, not their values.         *)
(*                                                                         *)
(* Output.  Standard output is the sequence `out' of the lines written so  *)
(* far, each a record with a `kind' and the parts the source formats into  *)
(* it.  The writes are unbuffered, so what was written before a run-time   *)
(* panic stays written.                                                    *)
(*                                                                         *)
(* One behaviour is one call: Init draws the call and its arguments, the   *)
(* action of the called function runs it to its return or to its panic.    *)
(***************************************************************************)
EXTENDS Integers, Sequences, FiniteSets, TLC

VARIABLES call, pc, out, ret

vars == <<call, pc, out, ret>>

-----------------------------------------------------------------------------
(* Bounds of the model.                                                    *)

\* Bearings range over [-MaxTurns*360, MaxTurns*360) degrees, every hundredth.
MaxTurns == 2
\* A condition key is at most MaxKeyLen tokens long.
MaxKeyLen == 3
\* forecast.Alerts holds at most MaxAlerts alerts.
MaxAlerts == 2
\* forecast.Daily.Data holds at most MaxDaily entries.
MaxDaily == 5
\* The days argument of PrintDaily ranges over -MaxDays..MaxDays.
MaxDays == 3

-----------------------------------------------------------------------------
(* Arithmetic of the source on the model's numbers.                        *)

Abs(n) == IF n < 0 THEN -n ELSE n

\* Integer quotient rounded toward zero (Go's int(x) of a float64 quotient).
TruncDiv(a, b) == IF a >= 0 THEN a \div b ELSE -((-a) \div b)

\* math.Mod(a, b) for b > 0: the remainder with the sign of a.
Mod(a, b) == IF a >= 0 THEN a % b ELSE -((-a) % b)

\* A float64 temperature: finite (hundredths), the negative zero, or NaN.
F(h) == [class |-> "finite", h |-> h]
NegZero == [class |-> "negzero", h |-> 0]
NaN == [class |-> "NaN", h |-> 0]

Digits(n) == ToString(n)

\* fmt's %v of a finite float64 with at most two decimals: the shortest
\* decimal that reads back as the value.
FormatHundredths(h) ==
    LET a == Abs(h)
        whole == Digits(a \div 100)
        frac == a % 100
        tail == IF frac = 0 THEN ""
                ELSE IF frac % 10 = 0 THEN "." \o Digits(frac \div 10)
                ELSE IF frac < 10 THEN ".0" \o Digits(frac)
                ELSE "." \o Digits(frac)
    IN (IF h < 0 THEN "-" ELSE "") \o whole \o tail

\* fmt's %v of a float64.
FormatFloat(x) ==
    CASE x.class = "NaN" -> "NaN"
      [] x.class = "negzero" -> "-0"
      [] OTHER -> FormatHundredths(x.h)

\* colorstring.Color on "[color]text": the colour's escape code, the text,
\* and the reset code the default Colorize appends.
Color(color, text) == "<" \o color \o ">" \o text \o "<reset>"

-----------------------------------------------------------------------------
(* The static tables.                                                      *)

UnitMeasures(degrees, speed, length, precipitation, longDate, hour) ==
    [Degrees |-> degrees, Speed |-> speed, Length |-> length,
     Precipitation |-> precipitation, LongDate |-> longDate, Hour |-> hour]

UnitFormats ==
    [code \in {"us", "si", "ca", "uk", "uk2"} |->
        CASE code = "us" ->
                UnitMeasures("°F", "mph", "miles", "in/hr",
                             "January 2 at 3:04pm MST", "3:04pm MST")
          [] code = "si" ->
                UnitMeasures("°C", "m/s", "kilometers", "mm/h",
                             "2006-01-02 15:04:05 EET", "15:04 EET")
          [] code = "ca" ->
                UnitMeasures("°C", "km/h", "kilometers", "mm/h",
                             "January 2 at 3:04pm MST", "3:04pm MST")
          [] code = "uk" ->
                UnitMeasures("°C", "mph", "kilometers", "mm/h",
                             "January 2 at 15:04 MST", "15:04 MST")
          [] code = "uk2" ->
                UnitMeasures("°C", "mph", "miles", "mm/h",
                             "January 2 at 15:04 MST", "15:04 MST")]

\* UnitFormats[key] of a Go map: the zero value for a key that is absent.
UnitFormatsLookup(code) ==
    IF code \in DOMAIN UnitFormats THEN UnitFormats[code]
    ELSE UnitMeasures("", "", "", "", "", "")

\* The region codes the model passes: the five of the table and one unknown.
RegionCodes == {"us", "si", "ca", "uk", "uk2", "xx"}

Directions ==
    <<"N", "NNE", "NE", "ENE", "E", "ESE", "SE", "SSE",
      "S", "SSW", "SW", "WSW", "W", "WNW", "NW", "NNW">>

-----------------------------------------------------------------------------
(* getBearingDetails.                                                      *)

\* 11.25, 22.5 (hundredths of a degree) and 16 of
\* int(math.Mod((degrees+11.25)/22.5, 16)).
HalfSector == 1125
SectorWidth == 2250
NumSectors == 16

\* The index expression without math.Mod.
BearingIndexNoMod(degrees) == TruncDiv(degrees + HalfSector, SectorWidth)

\* The index expression.  (degrees+11.25)/22.5 is n/2250 for
\* n = degrees+1125; math.Mod(n/2250, 16) is Mod(n, 16*2250)/2250 and int()
\* rounds it toward zero.
BearingIndex(degrees) ==
    TruncDiv(Mod(degrees + HalfSector, NumSectors * SectorWidth), SectorWidth)

\* Directions[index]: a Go slice index outside 0..len-1 panics.
IndexInRange(index) == index >= 0 /\ index < Len(Directions)

\* The whole function: its return value, or the panic of the index expression.
getBearingDetails(degrees) ==
    LET index == BearingIndex(degrees)
    IN IF IndexInRange(index)
       THEN [panic |-> FALSE, value |-> Directions[index + 1]]
       ELSE [panic |-> TRUE, value |-> ""]

\* The bearings the model calls getBearingDetails with.
BearingInputs == (-(MaxTurns * 36000)) .. (MaxTurns * 36000 - 1)

-----------------------------------------------------------------------------
(* getIcon.                                                                *)

(* A condition key is a sequence of tokens: "-" and "_" are the two        *)
(* characters getIcon removes, any other token is a run of other           *)
(* characters.  The string is the concatenation of the tokens.             *)
Separators == {"-", "_"}

Words ==
    {"clear", "clouds", "cloudy", "partly", "partlycloudy", "day", "night",
     "haze", "fog", "rain", "sleet", "snow", "thunderstorm", "tornado",
     "wind", "nonsense"}

Tokens == Words \cup Separators

RECURSIVE Concat(_)
Concat(tokens) ==
    IF tokens = <<>> THEN "" ELSE Head(tokens) \o Concat(Tail(tokens))

\* strings.Replace(s, old, "", -1) for a one-character old: every
\* occurrence is removed.
ReplaceAll(tokens, old) == SelectSeq(tokens, LAMBDA t : t # old)

\* Only the hyphens removed.
SterilizeHyphens(tokens) == ReplaceAll(tokens, "-")

\* strings.Replace(strings.Replace(iconStr, "-", "", -1), "_", "", -1)
Sterilize(tokens) == ReplaceAll(ReplaceAll(tokens, "-"), "_")

\* The glyph constants of package icons, by name; the switch leaves the
\* named result `icon' at its zero value "" when no case matches.
IconSwitch(iconStr) ==
    CASE iconStr = "clear" -> [color |-> "blue", icon |-> "icons.Clear"]
      [] iconStr = "clearday" -> [color |-> "yellow", icon |-> "icons.Clearday"]
      [] iconStr = "clearnight" ->
            [color |-> "light_yellow", icon |-> "icons.Clearnight"]
      [] iconStr = "clouds" -> [color |-> "blue", icon |-> "icons.Clouds"]
      [] iconStr = "cloudy" -> [color |-> "blue", icon |-> "icons.Cloudy"]
      [] iconStr = "cloudsnight" ->
            [color |-> "light_yellow", icon |-> "icons.Cloudsnight"]
      [] iconStr = "fog" -> [color |-> "blue", icon |-> "icons.Fog"]
      [] iconStr = "haze" -> [color |-> "blue", icon |-> "icons.Haze"]
      [] iconStr = "hazenight" ->
            [color |-> "light_yellow", icon |-> "icons.Hazenight"]
      [] iconStr = "partlycloudyday" ->
            [color |-> "yellow", icon |-> "icons.Partlycloudyday"]
      [] iconStr = "partlycloudynight" ->
            [color |-> "light_yellow", icon |-> "icons.Partlycloudynight"]
      [] iconStr = "rain" -> [color |-> "blue", icon |-> "icons.Rain"]
      [] iconStr = "sleet" -> [color |-> "blue", icon |-> "icons.Sleet"]
      [] iconStr = "snow" -> [color |-> "white", icon |-> "icons.Snow"]
      [] iconStr = "thunderstorm" ->
            [color |-> "black", icon |-> "icons.Thunderstorm"]
      [] iconStr = "tornado" -> [color |-> "black", icon |-> "icons.Tornado"]
      [] iconStr = "wind" -> [color |-> "black", icon |-> "icons.Wind"]
      [] OTHER -> [color |-> "blue", icon |-> ""]

\* The whole function: (icon, err).
getIcon(key) ==
    LET picked == IconSwitch(Concat(Sterilize(key)))
    IN [icon |-> Color(picked.color, picked.icon), err |-> "nil"]

RECURSIVE SeqsUpTo(_, _)
\* The sequences over S of length at most n.
SeqsUpTo(S, n) ==
    IF n = 0 THEN {<<>>}
    ELSE LET shorter == SeqsUpTo(S, n - 1)
         IN shorter \cup {Append(s, x) : s \in shorter, x \in S}

\* The keys the model calls getIcon with.
IconKeys == SeqsUpTo(Tokens, MaxKeyLen)

-----------------------------------------------------------------------------
(* printCommon.                                                            *)

\* The lines of printCommon, one operator per fmt.Printf, the value already
\* rendered by %v and the whole coloured white as in the source.
\* (The products by 100 are rendered as the exact product.)
HumidityLine(weather, text) ==
    [kind |-> "humidity", text |-> text,
     value |-> Color("white", FormatHundredths(weather.Humidity * 100) \o "%")]

\* The if/else of lines 153-157 without its else: both phrasings are written
\* when the humidity is above 0.20.
HumidityLinesNoElse(weather) ==
    (IF weather.Humidity > 20
     THEN <<HumidityLine(weather, "  Ick! The humidity is ")>> ELSE <<>>)
    \o <<HumidityLine(weather, "  The humidity is ")>>

\* The if/else of lines 153-157: one line, in one of two phrasings.
HumidityLines(weather) ==
    IF weather.Humidity > 20
    THEN <<HumidityLine(weather, "  Ick! The humidity is ")>>
    ELSE <<HumidityLine(weather, "  The humidity is ")>>

PrecipIntensityLine(weather, unitsFormat) ==
    [kind |-> "precipIntensity",
     text |-> "  The precipitation intensity of "
                \o Color("white", weather.PrecipType) \o " is ",
     value |-> Color("white", FormatHundredths(weather.PrecipIntensity)
                                \o " " \o unitsFormat.Precipitation)]

PrecipProbabilityLine(weather) ==
    [kind |-> "precipProbability",
     text |-> "  The precipitation probability is ",
     value |-> Color("white",
                     FormatHundredths(weather.PrecipProbability * 100) \o "%")]

NearestStormLine(weather, unitsFormat, direction) ==
    [kind |-> "nearestStorm",
     text |-> "  The nearest storm is ",
     value |-> Color("white", FormatHundredths(weather.NearestStormDistance)
                                \o " " \o unitsFormat.Length \o " " \o direction)]

WindSpeedLine(weather, unitsFormat, direction) ==
    [kind |-> "windSpeed",
     text |-> "  The wind speed is ",
     value |-> Color("white", FormatHundredths(weather.WindSpeed)
                                \o " " \o unitsFormat.Speed \o " " \o direction)]

CloudCoverLine(weather) ==
    [kind |-> "cloudCover",
     text |-> "  The cloud coverage is ",
     value |-> Color("white", FormatHundredths(weather.CloudCover * 100) \o "%")]

VisibilityLine(weather, unitsFormat) ==
    [kind |-> "visibility",
     text |-> "  The visibility is ",
     value |-> Color("white", FormatHundredths(weather.Visibility)
                                \o " " \o unitsFormat.Length)]

PressureLine(weather) ==
    [kind |-> "pressure",
     text |-> "  The pressure is ",
     value |-> Color("white", FormatHundredths(weather.Pressure) \o " mbar")]

\* The presence conditions, in the order of the source's if statements.
HumidityPresent(weather) == weather.Humidity > 0
PrecipIntensityPresent(weather) == weather.PrecipIntensity > 0
PrecipProbabilityPresent(weather) == weather.PrecipProbability > 0
NearestStormPresent(weather) == weather.NearestStormDistance > 0
WindSpeedPresent(weather) == weather.WindSpeed > 0
CloudCoverPresent(weather) == weather.CloudCover > 0
VisibilityPresent(weather) == weather.Visibility < 1000
PressurePresent(weather) == weather.Pressure > 0

When(present, line) == IF present THEN <<line>> ELSE <<>>

\* The whole function: the lines it writes and whether it panicked (in the
\* getBearingDetails call of the storm line or of the wind line: the
\* arguments of Sprintf are evaluated before anything of that line is
\* written, and nothing after it runs).
printCommon(weather, unitsFormat) ==
    LET storm == getBearingDetails(weather.NearestStormBearing)
        wind == getBearingDetails(weather.WindBearing)
        first == (IF HumidityPresent(weather) THEN HumidityLines(weather)
                  ELSE <<>>)
                 \o When(PrecipIntensityPresent(weather),
                         PrecipIntensityLine(weather, unitsFormat))
                 \o When(PrecipProbabilityPresent(weather),
                         PrecipProbabilityLine(weather))
        stormLine == When(NearestStormPresent(weather),
                          NearestStormLine(weather, unitsFormat, storm.value))
        windLine == When(WindSpeedPresent(weather),
                         WindSpeedLine(weather, unitsFormat, wind.value))
        last == When(CloudCoverPresent(weather), CloudCoverLine(weather))
                \o When(VisibilityPresent(weather),
                        VisibilityLine(weather, unitsFormat))
                \o When(PressurePresent(weather), PressureLine(weather))
    IN IF NearestStormPresent(weather) /\ storm.panic
       THEN [lines |-> first, panic |-> TRUE]
       ELSE IF WindSpeedPresent(weather) /\ wind.panic
       THEN [lines |-> first \o stormLine, panic |-> TRUE]
       ELSE [lines |-> first \o stormLine \o windLine \o last, panic |-> FALSE]

\* The bearings of the samples: north, west, past a full turn, and one
\* counter-clockwise of north.
SampleBearings == {0, 27000, 37000, -4500}

\* The metric fields of a Weather the model calls printCommon with.
WeatherInputs ==
    [Humidity : {0, 10, 25},
     PrecipIntensity : {0, 2},
     PrecipType : {"rain"},
     PrecipProbability : {0, 50},
     NearestStormDistance : {0, 1200},
     NearestStormBearing : SampleBearings,
     WindSpeed : {0, 550},
     WindBearing : SampleBearings,
     CloudCover : {0, 75},
     Visibility : {0, 990, 1000, 1600},
     Pressure : {0, 101325}]

-----------------------------------------------------------------------------
(* The time formatters.                                                    *)

\* time.Unix(0, seconds*1e9).Format(layout): the instant written in the
\* layout.  The model keeps the instant and the layout and leaves the
\* calendar arithmetic out; an empty layout formats to the empty string.
TimeFormat(seconds, layout) ==
    IF layout = "" THEN "" ELSE "t" \o Digits(seconds) \o " as " \o layout

epochFormat(seconds, unitsFormat) == TimeFormat(seconds, unitsFormat.LongDate)

epochFormatDate(seconds) == TimeFormat(seconds, "January 2 (Monday)")

epochFormatTime(seconds, unitsFormat) == TimeFormat(seconds, unitsFormat.Hour)

-----------------------------------------------------------------------------
(* PrintCurrent.                                                           *)

\* fmt.Sprintf("[magenta]%v%s", t, unitsFormat.Degrees), coloured.
FormatTemperature(color, t, unitsFormat) ==
    Color(color, FormatFloat(t) \o unitsFormat.Degrees)

PlainTemperatureLine(temp) ==
    [kind |-> "temperature", text |-> "The temperature is ", value |-> temp]

FeelsLikeTemperatureLine(temp, feelslike) ==
    [kind |-> "temperature", text |-> "The temperature is ", value |-> temp,
     clause |-> ", but it feels like ", feelslike |-> feelslike]

\* The if of lines 216-220 with its two branches exchanged.
TemperatureLineInverted(temp, feelslike) ==
    IF temp = feelslike THEN FeelsLikeTemperatureLine(temp, feelslike)
    ELSE PlainTemperatureLine(temp)

\* The if of lines 216-220 on the two rendered strings.
TemperatureLine(temp, feelslike) ==
    IF temp = feelslike THEN PlainTemperatureLine(temp)
    ELSE FeelsLikeTemperatureLine(temp, feelslike)

AlertTitleLine(alert) ==
    [kind |-> "alertTitle", value |-> Color("red", alert.Title)]

AlertDescriptionLine(alert) ==
    [kind |-> "alertDescription", value |-> Color("red", alert.Description)]

\* The two fmt.Println of lines 230-231.
AlertStampLines(alert, unitsFormat) ==
    <<[kind |-> "alertCreated",
       value |-> Color("red", "Created: "
                                \o epochFormat(alert.Time, unitsFormat))],
      [kind |-> "alertExpires",
       value |-> Color("red", "Expires: "
                                \o epochFormat(alert.Expires, unitsFormat))]>>

\* The loop body with the whole alert skipped when it has neither a title
\* nor a description.
AlertLinesSkippingEmpty(alert, unitsFormat) ==
    IF alert.Title = "" /\ alert.Description = "" THEN <<>>
    ELSE When(alert.Title # "", AlertTitleLine(alert))
         \o When(alert.Description # "", AlertDescriptionLine(alert))
         \o AlertStampLines(alert, unitsFormat)

\* The writes of one iteration of the loop over forecast.Alerts.  The
\* description is written by fmt.Print, without a line break of its own.
AlertLines(alert, unitsFormat) ==
    When(alert.Title # "", AlertTitleLine(alert))
    \o When(alert.Description # "", AlertDescriptionLine(alert))
    \o AlertStampLines(alert, unitsFormat)

RECURSIVE AllAlertLines(_, _)
AllAlertLines(alerts, unitsFormat) ==
    IF alerts = <<>> THEN <<>>
    ELSE AlertLines(Head(alerts), unitsFormat)
         \o AllAlertLines(Tail(alerts), unitsFormat)

\* The whole function: the lines it writes, whether it panicked, and the
\* error it returns (getIcon's, which is always nil, or printCommon's).
PrintCurrent(forecast, geolocation, ignoreAlerts, hideIcon) ==
    LET unitsFormat == UnitFormatsLookup(forecast.Flags.Units)
        got == getIcon(forecast.Currently.Icon)
        iconLine == When(~hideIcon, [kind |-> "icon", value |-> got.icon])
        header ==
            [kind |-> "header",
             text |-> "Current weather is ",
             value |-> Color("cyan", forecast.Currently.Summary) \o " in "
                       \o Color("green", geolocation.City \o " in "
                                           \o geolocation.Region)
                       \o " for "
                       \o Color("cyan", epochFormat(forecast.Currently.Time,
                                                    unitsFormat))]
        temp == FormatTemperature("magenta", forecast.Currently.Temperature,
                                  unitsFormat)
        feelslike == FormatTemperature("magenta",
                                       forecast.Currently.ApparentTemperature,
                                       unitsFormat)
        alertLines == IF ignoreAlerts THEN <<>>
                      ELSE AllAlertLines(forecast.Alerts, unitsFormat)
        common == printCommon(forecast.Currently, unitsFormat)
    IN IF ~hideIcon /\ got.err # "nil"
       THEN [lines |-> <<>>, panic |-> FALSE, err |-> got.err]
       ELSE [lines |-> iconLine \o <<header, TemperatureLine(temp, feelslike)>>
                       \o alertLines \o common.lines,
             panic |-> common.panic, err |-> "nil"]

-----------------------------------------------------------------------------
(* PrintDaily.                                                             *)

\* The three writes that open a day's block.
DayHeaderLines(daily, unitsFormat) ==
    <<[kind |-> "date",
       value |-> Color("magenta", epochFormatDate(daily.Time))],
      [kind |-> "high",
       text |-> "The temperature high is ",
       value |-> FormatTemperature("blue", daily.TemperatureMax, unitsFormat)
                 \o ", feels like "
                 \o FormatTemperature("cyan", daily.ApparentTemperatureMax,
                                      unitsFormat)
                 \o " around "
                 \o epochFormatTime(daily.TemperatureMaxTime, unitsFormat)],
      [kind |-> "low",
       text |-> "and low is ",
       value |-> FormatTemperature("blue", daily.TemperatureMin, unitsFormat)
                 \o ", feels like "
                 \o FormatTemperature("cyan", daily.ApparentTemperatureMin,
                                      unitsFormat)
                 \o " around "
                 \o epochFormatTime(daily.TemperatureMinTime, unitsFormat)]>>

\* if index == days { break }
StopAt(index, days) == index = days

RECURSIVE DailyLoop(_, _, _, _)
\* for index, daily := range rest, from `index' on: the lines written and
\* whether printCommon panicked on the way.  rest[index + 1] is Go's
\* rest[index].
DailyLoop(rest, index, days, unitsFormat) ==
    IF index >= Len(rest) \/ StopAt(index, days)
    THEN [lines |-> <<>>, panic |-> FALSE]
    ELSE LET daily == rest[index + 1]
             common == printCommon(daily, unitsFormat)
             block == DayHeaderLines(daily, unitsFormat) \o common.lines
         IN IF common.panic
            THEN [lines |-> block, panic |-> TRUE]
            ELSE LET after == DailyLoop(rest, index + 1, days, unitsFormat)
                 IN [lines |-> block \o after.lines, panic |-> after.panic]

\* The whole function.  forecast.Daily.Data[1:] panics on an empty slice
\* (slice bounds out of range); the error of printCommon is dropped.
PrintDaily(forecast, days) ==
    LET unitsFormat == UnitFormatsLookup(forecast.Flags.Units)
        data == forecast.Daily.Data
    IN IF Len(data) < 1
       THEN [lines |-> <<>>, panic |-> TRUE, err |-> "nil"]
       ELSE LET loop == DailyLoop(SubSeq(data, 2, Len(data)), 0, days,
                                  unitsFormat)
            IN [lines |-> loop.lines, panic |-> loop.panic, err |-> "nil"]

-----------------------------------------------------------------------------
(* The forecasts the model passes to the printers.                         *)

\* Nothing to report: every metric at its absent value.
Calm ==
    [Humidity |-> 0, PrecipIntensity |-> 0, PrecipType |-> "",
     PrecipProbability |-> 0, NearestStormDistance |-> 0,
     NearestStormBearing |-> 0, WindSpeed |-> 0, WindBearing |-> 0,
     CloudCover |-> 0, Visibility |-> 1000, Pressure |-> 0]

\* Every metric present, the bearings inside [0, 360).
Stormy ==
    [Humidity |-> 25, PrecipIntensity |-> 2, PrecipType |-> "rain",
     PrecipProbability |-> 50, NearestStormDistance |-> 1200,
     NearestStormBearing |-> 9000, WindSpeed |-> 550, WindBearing |-> 27000,
     CloudCover |-> 75, Visibility |-> 990, Pressure |-> 101325]

\* Wind from a bearing counter-clockwise of north.
Backing ==
    [Humidity |-> 10, PrecipIntensity |-> 0, PrecipType |-> "",
     PrecipProbability |-> 0, NearestStormDistance |-> 0,
     NearestStormBearing |-> 0, WindSpeed |-> 550, WindBearing |-> -4500,
     CloudCover |-> 75, Visibility |-> 1000, Pressure |-> 101325]

Samples == {Calm, Stormy, Backing}

Temperatures == {F(7200), F(7000), F(0), NegZero, NaN}

AlertInputs ==
    [Title : {"", "Flood Warning"}, Description : {"", "River rising"},
     Time : {100}, Expires : {200}]

CurrentlyInputs ==
    {sample @@ [Icon |-> icon, Summary |-> "Drizzle", Time |-> 50,
                Temperature |-> t, ApparentTemperature |-> a] :
        sample \in {Stormy, Backing},
        icon \in {<<"clear", "-", "day">>, <<"nonsense">>},
        t \in Temperatures, a \in Temperatures}

\* The entry at Go index i of forecast.Daily.Data: day i, with a sample's
\* metrics.
DailyEntry(i, sample) ==
    sample @@ [Time |-> i * 86400,
               TemperatureMax |-> F(7200), TemperatureMin |-> F(5500),
               ApparentTemperatureMax |-> F(7000),
               ApparentTemperatureMin |-> F(5450),
               TemperatureMaxTime |-> i * 86400 + 50400,
               TemperatureMinTime |-> i * 86400 + 14400]

DailyInputs ==
    {[i \in 1..Len(picks) |-> DailyEntry(i - 1, picks[i])] :
        picks \in SeqsUpTo(Samples, MaxDaily)}

-----------------------------------------------------------------------------
(* The calls and the state machine.                                        *)

BearingCalls == [fn : {"getBearingDetails"}, degrees : BearingInputs]

IconCalls == [fn : {"getIcon"}, key : IconKeys]

CommonCalls ==
    [fn : {"printCommon"}, weather : WeatherInputs, units : RegionCodes]

Geolocation == [City |-> "Helsinki", Region |-> "Uusimaa"]

CurrentCalls ==
    [fn : {"PrintCurrent"},
     forecast : [Flags : [Units : RegionCodes],
                 Currently : CurrentlyInputs,
                 Alerts : SeqsUpTo(AlertInputs, MaxAlerts)],
     geolocation : {Geolocation},
     ignoreAlerts : BOOLEAN,
     hideIcon : BOOLEAN]

DailyCalls ==
    [fn : {"PrintDaily"},
     forecast : [Flags : [Units : RegionCodes],
                 Daily : [Data : DailyInputs]],
     days : (-MaxDays) .. MaxDays]

Calls ==
    BearingCalls \cup IconCalls \cup CommonCalls \cup CurrentCalls
        \cup DailyCalls

\* What the caller gets back: the value returned, or nothing when the call
\* panicked.
Outcome(fn, panic, value) ==
    IF panic THEN [fn |-> fn, panic |-> TRUE] ELSE [fn |-> fn, value |-> value]

Init ==
    /\ call \in Calls
    /\ pc = "ready"
    /\ out = <<>>
    /\ ret = [fn |-> "none"]

RunGetBearingDetails ==
    /\ pc = "ready"
    /\ call.fn = "getBearingDetails"
    /\ LET r == getBearingDetails(call.degrees)
       IN /\ pc' = IF r.panic THEN "panicked" ELSE "returned"
          /\ ret' = Outcome(call.fn, r.panic, r.value)
    /\ UNCHANGED <<call, out>>

RunGetIcon ==
    /\ pc = "ready"
    /\ call.fn = "getIcon"
    /\ pc' = "returned"
    /\ ret' = Outcome(call.fn, FALSE, getIcon(call.key))
    /\ UNCHANGED <<call, out>>

RunPrintCommon ==
    /\ pc = "ready"
    /\ call.fn = "printCommon"
    /\ LET r == printCommon(call.weather, UnitFormatsLookup(call.units))
       IN /\ out' = out \o r.lines
          /\ pc' = IF r.panic THEN "panicked" ELSE "returned"
          /\ ret' = Outcome(call.fn, r.panic, "nil")
    /\ UNCHANGED call

RunPrintCurrent ==
    /\ pc = "ready"
    /\ call.fn = "PrintCurrent"
    /\ LET r == PrintCurrent(call.forecast, call.geolocation,
                             call.ignoreAlerts, call.hideIcon)
       IN /\ out' = out \o r.lines
          /\ pc' = IF r.panic THEN "panicked" ELSE "returned"
          /\ ret' = Outcome(call.fn, r.panic, r.err)
    /\ UNCHANGED call

RunPrintDaily ==
    /\ pc = "ready"
    /\ call.fn = "PrintDaily"
    /\ LET r == PrintDaily(call.forecast, call.days)
       IN /\ out' = out \o r.lines
          /\ pc' = IF r.panic THEN "panicked" ELSE "returned"
          /\ ret' = Outcome(call.fn, r.panic, r.err)
    /\ UNCHANGED call

Next ==
    \/ RunGetBearingDetails
    \/ RunGetIcon
    \/ RunPrintCommon
    \/ RunPrintCurrent
    \/ RunPrintDaily

Spec == Init /\ [][Next]_vars

-----------------------------------------------------------------------------
(* The properties.                                                         *)

\* The call has run, to its return or to its panic.
Finished(fn) == call.fn = fn /\ pc # "ready"

Kinds(lines) == [i \in 1..Len(lines) |-> lines[i].kind]

OfKind(lines, kinds) == SelectSeq(lines, LAMBDA l : l.kind \in kinds)

RECURSIVE Flatten(_)
Flatten(seqs) ==
    IF seqs = <<>> THEN <<>> ELSE Head(seqs) \o Flatten(Tail(seqs))

Only(present, kind) == IF present THEN <<kind>> ELSE <<>>

Min(a, b) == IF a < b THEN a ELSE b

(* C1: PrintDaily on a daily sequence of n >= 1 entries with dayCount >= 0 *)
(* writes exactly min(dayCount, n-1) day blocks, those of the indices      *)
(* 1, ..., min(dayCount, n-1) in increasing order, and never the block of  *)
(* index 0.  A block is counted by its date header.                        *)
C1_DayBlocks ==
    Finished("PrintDaily")
        /\ Len(call.forecast.Daily.Data) >= 1
        /\ call.days >= 0
    => LET data == call.forecast.Daily.Data
           m == Min(call.days, Len(data) - 1)
       IN OfKind(out, {"date"})
            = [i \in 1..m |->
                 [kind |-> "date",
                  value |-> Color("magenta",
                                  epochFormatDate(data[i + 1].Time))]]

\* The 16-point sector of a bearing in [0, 360): sectors are 22.5 degrees
\* wide, the first centred on north, the seventeenth being the first again.
Sector(d) == ((d + 1125) \div 2250) % 16

(* C2: for every d in [0, 360), getBearingDetails(d) returns the entry of  *)
(* Directions at index trunc(((d + 11.25) / 22.5) mod 16); 0 -> N,         *)
(* 90 -> E, 180 -> S, 270 -> W, 11.24 -> N, 11.26 -> NNE, and              *)
(* [348.75, 360) wraps back to N.                                          *)
C2_BearingLabel ==
    Finished("getBearingDetails") /\ call.degrees \in 0..35999
    => /\ pc = "returned"
       /\ ret.value = Directions[Sector(call.degrees) + 1]
       /\ call.degrees = 0 => ret.value = "N"
       /\ call.degrees = 9000 => ret.value = "E"
       /\ call.degrees = 18000 => ret.value = "S"
       /\ call.degrees = 27000 => ret.value = "W"
       /\ call.degrees = 1124 => ret.value = "N"
       /\ call.degrees = 1126 => ret.value = "NNE"
       /\ call.degrees >= 34875 => ret.value = "N"

\* getBearingDetails has returned N for a bearing of the last half sector.
C2_Witness ==
    /\ Finished("getBearingDetails")
    /\ call.degrees = 35999
    /\ pc = "returned"
    /\ ret.value = "N"

\* The metric kinds whose presence condition holds, in the fixed order.
PresentKinds(weather) ==
    Only(weather.Humidity > 0, "humidity")
    \o Only(weather.PrecipIntensity > 0, "precipIntensity")
    \o Only(weather.PrecipProbability > 0, "precipProbability")
    \o Only(weather.NearestStormDistance > 0, "nearestStorm")
    \o Only(weather.WindSpeed > 0, "windSpeed")
    \o Only(weather.CloudCover > 0, "cloudCover")
    \o Only(weather.Visibility < 1000, "visibility")
    \o Only(weather.Pressure > 0, "pressure")

(* C3: printCommon writes a metric's line if and only if that metric's     *)
(* presence condition holds, each decided independently of the other       *)
(* metrics, and the lines appear in the fixed order.                       *)
C3_PresentMetrics ==
    Finished("printCommon") => Kinds(out) = PresentKinds(call.weather)

AlertKinds == {"alertTitle", "alertDescription", "alertCreated", "alertExpires"}

\* Every alert of the forecast has an empty description: it has only a
\* title, or neither a title nor a description.
NoDescriptions ==
    \A i \in 1..Len(call.forecast.Alerts) :
        call.forecast.Alerts[i].Description = ""

(* C4, as stated: with ignoreAlerts = false an alert with neither title    *)
(* nor description produces no alert line at all, and an alert with only a *)
(* title produces the title line and the Created and Expires lines.        *)
C4_EmptyAlertSilent ==
    Finished("PrintCurrent") /\ ~call.ignoreAlerts /\ NoDescriptions
    => Kinds(OfKind(out, AlertKinds))
         = Flatten([i \in 1..Len(call.forecast.Alerts) |->
                      IF call.forecast.Alerts[i].Title = "" THEN <<>>
                      ELSE <<"alertTitle", "alertCreated", "alertExpires">>])

(* C4, amended: with ignoreAlerts = false an alert with neither title nor  *)
(* description produces exactly the Created and Expires lines, and an      *)
(* alert with only a title produces exactly the title line followed by the *)
(* Created and Expires lines.                                              *)
C4_AlertLines ==
    Finished("PrintCurrent") /\ ~call.ignoreAlerts /\ NoDescriptions
    => Kinds(OfKind(out, AlertKinds))
         = Flatten([i \in 1..Len(call.forecast.Alerts) |->
                      IF call.forecast.Alerts[i].Title = ""
                      THEN <<"alertCreated", "alertExpires">>
                      ELSE <<"alertTitle", "alertCreated", "alertExpires">>])

\* PrintCurrent has printed an alert with neither title nor description and
\* then one with only a title.
C4_Witness ==
    /\ Finished("PrintCurrent")
    /\ ~call.ignoreAlerts
    /\ Len(call.forecast.Alerts) = 2
    /\ call.forecast.Alerts[1].Title = ""
    /\ call.forecast.Alerts[1].Description = ""
    /\ call.forecast.Alerts[2].Title # ""
    /\ call.forecast.Alerts[2].Description = ""
    /\ Len(OfKind(out, AlertKinds)) = 5

\* The one temperature line PrintCurrent has written.
WrittenTemperatureLine == OfKind(out, {"temperature"})[1]

(* C5: PrintCurrent writes the temperature line without a "feels like"     *)
(* clause exactly when the formatted temperature string equals the         *)
(* formatted apparent-temperature string, and with the clause exactly when *)
(* the two differ, for every region code, an unknown one included.         *)
C5_FeelsLikeClause ==
    Finished("PrintCurrent")
    => LET unitsFormat == UnitFormatsLookup(call.forecast.Flags.Units)
           temp == FormatTemperature("magenta",
                                     call.forecast.Currently.Temperature,
                                     unitsFormat)
           feelslike ==
               FormatTemperature("magenta",
                                 call.forecast.Currently.ApparentTemperature,
                                 unitsFormat)
       IN /\ Len(OfKind(out, {"temperature"})) = 1
          /\ WrittenTemperatureLine.value = temp
          /\ "clause" \notin DOMAIN WrittenTemperatureLine <=> temp = feelslike
          /\ "clause" \in DOMAIN WrittenTemperatureLine
                => WrittenTemperatureLine.feelslike = feelslike

\* PrintCurrent has written the clause for an unknown region code, whose
\* degree symbol is empty.
C5_Witness ==
    /\ Finished("PrintCurrent")
    /\ call.forecast.Flags.Units = "xx"
    /\ call.forecast.Currently.Temperature = F(7200)
    /\ call.forecast.Currently.ApparentTemperature = F(7000)
    /\ "clause" \in DOMAIN WrittenTemperatureLine
    /\ WrittenTemperatureLine.value = Color("magenta", "72")

\* The key as one string, every "-" and "_" removed.
WithoutSeparators(key) ==
    Concat(SelectSeq(key, LAMBDA t : t \notin Separators))

\* The condition names the switch of getIcon knows.
KnownConditions ==
    {"clear", "clearday", "clearnight", "clouds", "cloudy", "cloudsnight",
     "fog", "haze", "hazenight", "partlycloudyday", "partlycloudynight",
     "rain", "sleet", "snow", "thunderstorm", "tornado", "wind"}

(* C6: getIcon is a total function of the key with hyphens and underscores *)
(* removed: the result for a key is the result for the key written without *)
(* them, so that two keys equal after the removal yield the same result; a *)
(* key that matches no known condition yields the empty glyph in the       *)
(* default blue; the error is nil for every input.                         *)
C6_IconOfStrippedKey ==
    Finished("getIcon")
    => /\ pc = "returned"
       /\ ret.value.err = "nil"
       /\ ret.value = getIcon(<<WithoutSeparators(call.key)>>)
       /\ WithoutSeparators(call.key) \notin KnownConditions
            => ret.value.icon = Color("blue", "")
       /\ WithoutSeparators(call.key) = "clearday"
            => ret.value.icon = Color("yellow", "icons.Clearday")

\* getIcon has resolved "clear_day" to the yellow clear-day glyph.
C6_Witness ==
    /\ Finished("getIcon")
    /\ call.key = <<"clear", "_", "day">>
    /\ ret.value.icon = Color("yellow", "icons.Clearday")

(* C7, as stated: one call of printCommon writes between 0 and 7 metric    *)
(* lines, never more than 7.                                               *)
C7_AtMostSevenLines == Finished("printCommon") => Len(out) <= 7

(* C7, amended: one call of printCommon writes between 0 and 8 metric      *)
(* lines, never more than 8.                                               *)
C7_AtMostEightLines == Finished("printCommon") => Len(out) <= 8

\* printCommon has written all eight metric lines.
C7_Witness ==
    /\ Finished("printCommon")
    /\ pc = "returned"
    /\ Len(out) = 8
    /\ Kinds(out) = PresentKinds(call.weather)

(* C8: PrintDaily called with a negative dayCount prints nothing: no day   *)
(* block is written.                                                       *)
C8_NegativePrintsNothing ==
    Finished("PrintDaily") /\ call.days < 0 => out = <<>>

(* C9: for every degrees value, negative ones and those >= 360 included,   *)
(* getBearingDetails computes an index inside 0..15 and returns an entry   *)
(* of Directions without a run-time fault, and so do the storm and wind    *)
(* lines of printCommon.                                                   *)
C9_BearingNeverFaults ==
    /\ Finished("getBearingDetails")
         => /\ pc = "returned"
            /\ \E i \in 1..Len(Directions) : ret.value = Directions[i]
    /\ Finished("printCommon") => pc = "returned"

(* C10: PrintDaily runs to completion and returns nil without a run-time   *)
(* fault for every forecast and every dayCount; on an empty daily sequence *)
(* no day block is written.                                                *)
C10_DailyCompletes ==
    Finished("PrintDaily")
    => /\ pc = "returned"
       /\ ret.value = "nil"
       /\ call.forecast.Daily.Data = <<>> => out = <<>>

=============================================================================
